---- MODULE Spec2Model ----
(***************************************************************************)
(* Model of src/entities.rs: the Player, Shot and Enemy entities and the   *)
(* TextSprite of the shooter.                                              *)
(*                                                                         *)
(* The entities never touch one another (every method takes only its own   *)
(* receiver), so the state is ONE object of the module, `self`, together   *)
(* with the last call made on it, `call`.                                  *)
(*                                                                         *)
(* f32 values are integers counting units of 1/Unit, rounded by Fl to      *)
(* Mantissa significant bits (round to nearest, ties to even), as IEEE 754 *)
(* binary32 does.  Unit is the f32 spacing in [64, 128), so every value    *)
(* of the model is an f32 value and every sum, difference and product is   *)
(* rounded as the hardware rounds it.  Infinities, NaN and signed zero are *)
(* not modelled: all magnitudes stay far below the f32 maximum.            *)
(***************************************************************************)
EXTENDS Integers, Sequences, FiniteSets, TLC

VARIABLES self, call, ext

vars == <<self, call, ext>>

(***************************** f32 arithmetic ******************************)

\* significand width of f32
Mantissa == 24

\* the value 1.0: units are the f32 spacing of the binade [64, 128)
Unit == 2 ^ (Mantissa - 7)

\* the f32 value n.0
F(n) == n * Unit

Abs(v) == IF v < 0 THEN -v ELSE v

RECURSIVE Quantum(_)
\* spacing of the f32 values around magnitude a
Quantum(a) == IF a < 2 ^ Mantissa THEN 1 ELSE 2 * Quantum(a \div 2)

\* round to nearest f32 value, ties to even
Fl(v) ==
    LET a  == Abs(v)
        q  == Quantum(a)
        n  == a \div q
        r  == a - n * q
        up == IF 2 * r > q \/ (2 * r = q /\ n % 2 = 1) THEN (n + 1) * q ELSE n * q
    IN  IF v < 0 THEN -up ELSE up

FAdd(a, b) == Fl(a + b)

FSub(a, b) == Fl(a - b)

\* a * b, one of the factors being a whole number
FMul(a, b) == IF b % Unit = 0 THEN Fl(a * (b \div Unit)) ELSE Fl((a \div Unit) * b)

\* v / 2.0
FHalf(v) == Fl(v \div 2)

\* u32 as f32
AsF32(n) == Fl(F(n))

Point2(x, y) == [x |-> x, y |-> y]

Vector2(x, y) == [x |-> x, y |-> y]

\* Vector2 * f32
VecScale(v, s) == Vector2(FMul(v.x, s), FMul(v.y, s))

\* Point2 += Vector2
PointAdd(p, v) == Point2(FAdd(p.x, v.x), FAdd(p.y, v.y))

clamp_NoLower(val, min, max) == IF val < max THEN val ELSE max

\* nalgebra's clamp, called at entities.rs:36
clamp(val, min, max) ==
    IF val > min
    THEN IF val < max THEN val ELSE max
    ELSE min

(******************************** inputs ***********************************)

\* largest |coordinate| a Shot or an Enemy is moved to
MaxCoord == 1024

\* a position with a fractional part using the last bit of the significand
FracPos == F(120) + 39321

Positions == {Point2(x, y) : x \in {F(10), FracPos}, y \in {FracPos, F(700)}}

\* a player can be put left and right of the bounds update is given
PlayerPositions == {Point2(x, F(700)) : x \in {F(-50), 0, F(10), FracPos, F(1200)}}

Amounts == {F(-1), 0, F(1)}

Seconds == {-(Unit \div 2), 0, Unit}

MaxRights == {F(-20), 0, F(300), F(1000)}

Speeds == {F(-100), 0, F(150)}

Labels == {"crab", "gopher"}

\* (width, height) a laid-out text can have
TextDims == {<<33, 16>>, <<64, 17>>}

Cooldowns == {0, Unit \div 2}

(******************************** graphics *********************************)

\* DrawParam with ggez's defaults for the fields a call leaves out
\* (scale and offset in thousandths)
DrawParam(dest, scale, offset) == [dest |-> dest, scale |-> scale, offset |-> offset]

DefaultScale == <<1000, 1000>>

DefaultOffset == <<0, 0>>

\* graphics::draw_ex: the call made on the context and what the context answers
draw_ex(drawable, param, ok) ==
    [fn |-> "draw_ex", drawable |-> drawable, param |-> param,
     result |-> IF ok THEN "Ok" ELSE "Err"]

(********************************* Player **********************************)

SPEED == 500

SHOT_TIMEOUT == 1

PlayerNew(pos) ==
    [type |-> "Player",
     state |-> "Normal",
     pos |-> pos,
     velocity |-> Vector2(0, 0),
     time_until_next_shot |-> F(SHOT_TIMEOUT)]

PlayerUpdate_NoAmount(p, amount, seconds, max_right) ==
    LET new_pos == FAdd(p.pos.x, FMul(F(SPEED), seconds))
    IN  [p EXCEPT !.pos.x = clamp(new_pos, 0, max_right)]

PlayerUpdate_Unclamped(p, amount, seconds, max_right) ==
    LET new_pos == FAdd(p.pos.x, FMul(FMul(F(SPEED), seconds), amount))
    IN  [p EXCEPT !.pos.x = IF new_pos = p.pos.x THEN new_pos
                            ELSE clamp(new_pos, 0, max_right)]

PlayerUpdate_RunsCooldown(p, amount, seconds, max_right) ==
    LET new_pos == FAdd(p.pos.x, FMul(FMul(F(SPEED), seconds), amount))
    IN  [p EXCEPT !.pos.x = clamp(new_pos, 0, max_right),
                  !.time_until_next_shot = FSub(p.time_until_next_shot, seconds)]

PlayerUpdate(p, amount, seconds, max_right) ==
    LET new_pos == FAdd(p.pos.x, FMul(FMul(F(SPEED), seconds), amount))
    IN  [p EXCEPT !.pos.x = clamp(new_pos, 0, max_right)]

PlayerDraw(p, ok) ==
    LET d == IF p.state = "Normal"
             THEN draw_ex("ferris_normal_image",
                          DrawParam(p.pos, <<950, 950>>, <<500, 1000>>), ok)
             ELSE draw_ex("ferris_shooting_image",
                          DrawParam(p.pos, DefaultScale, <<545, 960>>), ok)
    IN  [self |-> p, ctx |-> <<d>>, result |-> d.result]

(********************************** Shot ***********************************)

ShotNew(pos) ==
    [type |-> "Shot",
     pos |-> pos,
     is_alive |-> TRUE,
     velocity |-> Vector2(0, F(-500))]

ShotUpdate_Down(s, seconds) ==
    [s EXCEPT !.pos = PointAdd(s.pos, VecScale(Vector2(0, F(500)), seconds))]

ShotUpdate_Kills(s, seconds) ==
    LET p == PointAdd(s.pos, VecScale(s.velocity, seconds))
    IN  [s EXCEPT !.pos = p, !.is_alive = s.is_alive /\ p.y >= 0]

ShotUpdate(s, seconds) ==
    [s EXCEPT !.pos = PointAdd(s.pos, VecScale(s.velocity, seconds))]

ShotDraw(s, ok) ==
    LET d == draw_ex("shot_image", DrawParam(s.pos, DefaultScale, DefaultOffset), ok)
    IN  [self |-> s, ctx |-> <<d>>, result |-> d.result]

(********************************* sprites *********************************)

\* graphics::Font::new as the context answers it
FontNew(path, size, ok) ==
    [fn |-> "Font::new", path |-> path, size |-> size,
     result |-> IF ok THEN "Ok" ELSE "Err"]

\* graphics::Text::new as the context answers it
TextNew(label, dims, ok) ==
    [fn |-> "Text::new", label |-> label,
     result |-> IF ok THEN "Ok" ELSE "Err"]

TextSpriteNew_IgnoresFontError(label, fontOk, textOk, dims) ==
    LET font == FontNew("/DejaVuSerif.ttf", 16, fontOk)
        text == TextNew(label, dims, textOk)
    IN  IF text.result = "Err"
        THEN [ctx |-> <<font, text>>, result |-> "Err", value |-> <<>>]
        ELSE [ctx |-> <<font, text>>, result |-> "Ok",
              value |-> <<[type |-> "TextSprite",
                           text |-> [label |-> label, width |-> dims[1],
                                     height |-> dims[2]]]>>]

\* value is the sequence of the values returned: none with Err, one with Ok
TextSpriteNew(label, fontOk, textOk, dims) ==
    LET font == FontNew("/DejaVuSerif.ttf", 16, fontOk)
        text == TextNew(label, dims, textOk)
    IN  IF font.result = "Err"
        THEN [ctx |-> <<font>>, result |-> "Err", value |-> <<>>]
        ELSE IF text.result = "Err"
        THEN [ctx |-> <<font, text>>, result |-> "Err", value |-> <<>>]
        ELSE [ctx |-> <<font, text>>, result |-> "Ok",
              value |-> <<[type |-> "TextSprite",
                           text |-> [label |-> label, width |-> dims[1],
                                     height |-> dims[2]]]>>]

TextSpriteDraw(sp, center, ok) ==
    LET d == draw_ex(sp.text, DrawParam(center, DefaultScale, <<500, 500>>), ok)
    IN  [self |-> sp, ctx |-> <<d>>, result |-> d.result]

TextSpriteWidth(sp) == sp.text.width

TextSpriteHeight(sp) == sp.text.height

\* dispatch of the Sprite trait's methods on a Box<dyn Sprite>
SpriteDraw(sp, center, ok) ==
    CASE sp.type = "TextSprite" -> TextSpriteDraw(sp, center, ok)

SpriteWidth(sp) ==
    CASE sp.type = "TextSprite" -> TextSpriteWidth(sp)

SpriteHeight(sp) ==
    CASE sp.type = "TextSprite" -> TextSpriteHeight(sp)

\* every sprite TextSprite::new can return
Sprites ==
    {TextSpriteNew(l, TRUE, TRUE, d).value[1] : l \in Labels, d \in TextDims}

(********************************* Enemy ***********************************)

EnemyNew(label, pos, speed, sprite) ==
    [type |-> "Enemy",
     pos |-> pos,
     label |-> label,
     sprite |-> sprite,
     is_alive |-> TRUE,
     velocity |-> Vector2(0, speed)]

EnemyLabel(e) == e.label

EnemyUpdate_Diagonal(e, seconds) ==
    [e EXCEPT !.pos = PointAdd(e.pos, VecScale(Vector2(e.velocity.y, e.velocity.y), seconds))]

EnemyUpdate(e, seconds) ==
    [e EXCEPT !.pos = PointAdd(e.pos, VecScale(e.velocity, seconds))]

EnemyDraw_Retries(e, ok) ==
    LET r == SpriteDraw(e.sprite, e.pos, ok)
        again == SpriteDraw(r.self, e.pos, TRUE)
    IN  IF r.result = "Ok"
        THEN [self |-> [e EXCEPT !.sprite = r.self], ctx |-> r.ctx, result |-> r.result]
        ELSE [self |-> [e EXCEPT !.sprite = again.self], ctx |-> r.ctx \o again.ctx,
              result |-> again.result]

EnemyDraw(e, ok) ==
    LET r == SpriteDraw(e.sprite, e.pos, ok)
    IN  [self |-> [e EXCEPT !.sprite = r.self], ctx |-> r.ctx, result |-> r.result]

Rect(x, y, w, h) == [x |-> x, y |-> y, w |-> w, h |-> h]

EnemyBoundingRect(e) ==
    LET left   == FSub(e.pos.x, FHalf(AsF32(SpriteWidth(e.sprite))))
        right  == FAdd(e.pos.x, FHalf(AsF32(SpriteWidth(e.sprite))))
        top    == FSub(e.pos.y, FHalf(AsF32(SpriteHeight(e.sprite))))
        bottom == FAdd(e.pos.y, FHalf(AsF32(SpriteHeight(e.sprite))))
    IN  Rect(left, top, FSub(right, left), FSub(bottom, top))

(***************************** the state machine ***************************)

\* self: the object; call: the last call made, with the receiver it was made
\* on (recv), the calls it made on the context (ctx) and what it returned;
\* ext: a pub field was written from outside since the object was built

\* no object: a constructor returned Err
None == [type |-> "None"]

Call(op, recv, args, ctx, result) ==
    [op |-> op, recv |-> recv, args |-> args, ctx |-> ctx, result |-> result]

InRange(p) == Abs(p.x) <= F(MaxCoord) /\ Abs(p.y) <= F(MaxCoord)

DoPlayerNew ==
    \E pos \in PlayerPositions :
        /\ self' = PlayerNew(pos)
        /\ call' = Call("Player::new", None, [pos |-> pos], <<>>, "Ok")
        /\ ext' = FALSE

DoPlayerUpdate ==
    /\ self.type = "Player"
    /\ \E amount \in Amounts, seconds \in Seconds, max_right \in MaxRights :
        /\ self' = PlayerUpdate(self, amount, seconds, max_right)
        /\ call' = Call("Player::update", self,
                        [amount |-> amount, seconds |-> seconds, max_right |-> max_right],
                        <<>>, "()")
    /\ UNCHANGED ext

DoPlayerDraw ==
    /\ self.type = "Player"
    /\ \E ok \in BOOLEAN :
        LET r == PlayerDraw(self, ok)
        IN  /\ self' = r.self
            /\ call' = Call("Player::draw", self, <<>>, r.ctx, r.result)
    /\ UNCHANGED ext

DoShotNew ==
    \E pos \in Positions :
        /\ self' = ShotNew(pos)
        /\ call' = Call("Shot::new", None, [pos |-> pos], <<>>, "Ok")
        /\ ext' = FALSE

DoShotUpdate ==
    /\ self.type = "Shot"
    /\ \E seconds \in Seconds :
        /\ InRange(ShotUpdate(self, seconds).pos)
        /\ self' = ShotUpdate(self, seconds)
        /\ call' = Call("Shot::update", self, [seconds |-> seconds], <<>>, "()")
    /\ UNCHANGED ext

DoShotDraw ==
    /\ self.type = "Shot"
    /\ \E ok \in BOOLEAN :
        LET r == ShotDraw(self, ok)
        IN  /\ self' = r.self
            /\ call' = Call("Shot::draw", self, <<>>, r.ctx, r.result)
    /\ UNCHANGED ext

\* self becomes the sprite returned, if one is returned
DoTextSpriteNew ==
    /\ \E label \in Labels, fontOk \in BOOLEAN, textOk \in BOOLEAN, dims \in TextDims :
        LET r == TextSpriteNew(label, fontOk, textOk, dims)
        IN  /\ self' = IF r.value = <<>> THEN None ELSE r.value[1]
            /\ call' = Call("TextSprite::new", None, [label |-> label], r.ctx, r.result)
    /\ ext' = FALSE

DoTextSpriteDraw ==
    /\ self.type = "TextSprite"
    /\ \E center \in Positions, ok \in BOOLEAN :
        LET r == SpriteDraw(self, center, ok)
        IN  /\ self' = r.self
            /\ call' = Call("TextSprite::draw", self, [center |-> center], r.ctx, r.result)
    /\ UNCHANGED ext

DoTextSpriteSize ==
    /\ self.type = "TextSprite"
    /\ call' = Call("TextSprite::width/height", self, <<>>, <<>>,
                    <<SpriteWidth(self), SpriteHeight(self)>>)
    /\ UNCHANGED <<self, ext>>

\* an enemy is given the sprite made from its own label
DoEnemyNew ==
    \E pos \in Positions, speed \in Speeds, sprite \in Sprites :
        /\ self' = EnemyNew(sprite.text.label, pos, speed, sprite)
        /\ call' = Call("Enemy::new", None,
                        [label |-> sprite.text.label, pos |-> pos, speed |-> speed,
                         sprite |-> sprite],
                        <<>>, "Ok")
        /\ ext' = FALSE

DoEnemyLabel ==
    /\ self.type = "Enemy"
    /\ call' = Call("Enemy::label", self, <<>>, <<>>, EnemyLabel(self))
    /\ UNCHANGED <<self, ext>>

DoEnemyUpdate ==
    /\ self.type = "Enemy"
    /\ \E seconds \in Seconds :
        /\ InRange(EnemyUpdate(self, seconds).pos)
        /\ self' = EnemyUpdate(self, seconds)
        /\ call' = Call("Enemy::update", self, [seconds |-> seconds], <<>>, "()")
    /\ UNCHANGED ext

DoEnemyDraw ==
    /\ self.type = "Enemy"
    /\ \E ok \in BOOLEAN :
        LET r == EnemyDraw(self, ok)
        IN  /\ self' = r.self
            /\ call' = Call("Enemy::draw", self, <<>>, r.ctx, r.result)
    /\ UNCHANGED ext

DoEnemyBoundingRect ==
    /\ self.type = "Enemy"
    /\ call' = Call("Enemy::bounding_rect", self, <<>>, <<>>, EnemyBoundingRect(self))
    /\ UNCHANGED <<self, ext>>

\* writes of the pub fields by the code that owns the entity

WritePos ==
    /\ self.type \in {"Player", "Shot", "Enemy"}
    /\ \E p \in (IF self.type = "Player" THEN PlayerPositions ELSE Positions) :
        /\ self' = [self EXCEPT !.pos = p]
        /\ call' = Call("write pos", None, [pos |-> p], <<>>, "()")
    /\ ext' = TRUE

WriteState ==
    /\ self.type = "Player"
    /\ \E st \in {"Normal", "Shooting"} :
        /\ self' = [self EXCEPT !.state = st]
        /\ call' = Call("write state", None, [state |-> st], <<>>, "()")
    /\ ext' = TRUE

WriteTimeUntilNextShot ==
    /\ self.type = "Player"
    /\ \E t \in Cooldowns :
        /\ self' = [self EXCEPT !.time_until_next_shot = t]
        /\ call' = Call("write time_until_next_shot", None, [t |-> t], <<>>, "()")
    /\ ext' = TRUE

WriteIsAlive ==
    /\ self.type \in {"Shot", "Enemy"}
    /\ \E b \in BOOLEAN :
        /\ self' = [self EXCEPT !.is_alive = b]
        /\ call' = Call("write is_alive", None, [is_alive |-> b], <<>>, "()")
    /\ ext' = TRUE

\* the state after one of the constructors
Init ==
    /\ \/ \E pos \in PlayerPositions :
            /\ self = PlayerNew(pos)
            /\ call = Call("Player::new", None, [pos |-> pos], <<>>, "Ok")
       \/ \E pos \in Positions :
            /\ self = ShotNew(pos)
            /\ call = Call("Shot::new", None, [pos |-> pos], <<>>, "Ok")
       \/ \E pos \in Positions, speed \in Speeds, sprite \in Sprites :
            /\ self = EnemyNew(sprite.text.label, pos, speed, sprite)
            /\ call = Call("Enemy::new", None,
                           [label |-> sprite.text.label, pos |-> pos, speed |-> speed,
                            sprite |-> sprite],
                           <<>>, "Ok")
    /\ ext = FALSE

Next ==
    \/ DoPlayerNew
    \/ DoPlayerUpdate
    \/ DoPlayerDraw
    \/ DoShotNew
    \/ DoShotUpdate
    \/ DoShotDraw
    \/ DoTextSpriteNew
    \/ DoTextSpriteDraw
    \/ DoTextSpriteSize
    \/ DoEnemyNew
    \/ DoEnemyLabel
    \/ DoEnemyUpdate
    \/ DoEnemyDraw
    \/ DoEnemyBoundingRect
    \/ WritePos
    \/ WriteState
    \/ WriteTimeUntilNextShot
    \/ WriteIsAlive

Spec == Init /\ [][Next]_vars

(********************************* claims **********************************)

Min(a, b) == IF a < b THEN a ELSE b

Max(a, b) == IF a > b THEN a ELSE b

\* the step is a call of op on the entity self
Calls(op) == call'.op = op /\ call'.recv = self

\* the x + SPEED * seconds * amount of a Player::update call c
Moved(c) == FAdd(c.recv.pos.x, FMul(FMul(F(500), c.args.seconds), c.args.amount))

\* C1: whatever x was before and whatever amount and seconds are, after
\* Player::update with max_right >= 0 position.x lies in [0, max_right].
C1_XWithinBounds ==
    (call.op = "Player::update" /\ call.args.max_right >= 0)
        => (0 <= self.pos.x /\ self.pos.x <= call.args.max_right)

\* an update from x = 10 to the left by 500 ended at the left bound
C1_Witness ==
    /\ call.op = "Player::update"
    /\ call.recv.pos.x = F(10)
    /\ call.args = [amount |-> F(-1), seconds |-> Unit, max_right |-> F(1000)]
    /\ self.pos.x = 0

\* C2: Player::update with max_right >= 0 sets position.x to
\* min(max_right, max(0, x + 500 * seconds * amount)), x being the value
\* before the call.
C2_UpdateFormula ==
    [][(Calls("Player::update") /\ call'.args.max_right >= 0)
        => self'.pos.x = Min(call'.args.max_right, Max(0, Moved(call')))]_vars

\* x = 0, amount = 1, seconds = 1, max_right = 1000 gave 500
C2_Witness ==
    /\ call.op = "Player::update"
    /\ call.recv.pos.x = 0
    /\ call.args = [amount |-> F(1), seconds |-> Unit, max_right |-> F(1000)]
    /\ self.pos.x = F(500)

\* C3: Player::update and Player::draw leave position.y, state,
\* time_until_next_shot and velocity as they were; so a player whose fields
\* were never written from outside is Normal with time_until_next_shot 1.0
\* and velocity zero.
C3_UpdateFrame ==
    /\ [][(Calls("Player::update") \/ Calls("Player::draw"))
            => /\ self'.pos.y = self.pos.y
               /\ self'.state = self.state
               /\ self'.time_until_next_shot = self.time_until_next_shot
               /\ self'.velocity = self.velocity]_vars
    /\ []((self.type = "Player" /\ ~ext)
            => /\ self.state = "Normal"
               /\ self.time_until_next_shot = F(1)
               /\ self.velocity = Vector2(0, 0))

\* a moving update of a Shooting player whose cooldown is running
C3_Witness ==
    /\ call.op = "Player::update"
    /\ call.args.amount = F(1) /\ call.args.seconds = Unit
    /\ self.pos.x # call.recv.pos.x
    /\ self.state = "Shooting"
    /\ self.time_until_next_shot = Unit \div 2

\* C4: for seconds >= 0 Shot::update leaves x alone and lowers y by
\* 500 * seconds; the velocity of a shot is (0, -500) from Shot::new on.
C4_ShotMoves ==
    /\ [][(Calls("Shot::update") /\ call'.args.seconds >= 0)
            => /\ self'.pos.x = self.pos.x
               /\ self'.pos.y = FSub(self.pos.y, FMul(F(500), call'.args.seconds))]_vars
    /\ [](self.type = "Shot" => self.velocity = Vector2(0, F(-500)))

\* a shot at a fractional position moved for one second, the sum being rounded
C4_Witness ==
    /\ call.op = "Shot::update"
    /\ call.args.seconds = Unit
    /\ call.recv.pos = Point2(FracPos, FracPos)
    /\ self.pos.x = FracPos
    /\ self.pos.y # FracPos - F(500)

\* C5: an enemy built with speed has velocity (0, speed); Enemy::update
\* leaves x alone, adds speed * seconds to y for every seconds and speed,
\* and leaves velocity, label and sprite as they were.
C5_EnemyMoves ==
    /\ [](call.op = "Enemy::new" => self.velocity = Vector2(0, call.args.speed))
    /\ [][Calls("Enemy::update")
            => /\ self'.pos.x = self.pos.x
               /\ self'.pos.y = FAdd(self.pos.y, FMul(self.velocity.y, call'.args.seconds))
               /\ self'.velocity = self.velocity
               /\ self'.label = self.label
               /\ self'.sprite = self.sprite]_vars

\* an enemy of speed -100 moved back in time: y grew by 50
C5_Witness ==
    /\ call.op = "Enemy::update"
    /\ call.args.seconds = -(Unit \div 2)
    /\ self.velocity.y = F(-100)
    /\ call.recv.pos.y = F(700)
    /\ self.pos.y = F(750)
    /\ self.pos.x = FracPos

\* C6: bounding_rect returns a rectangle as wide and as high as the sprite,
\* its left edge at pos.x - w/2 and its top edge at pos.y - h/2, for the
\* position the enemy has when it is called.
C6_RectMatchesSprite ==
    call.op = "Enemy::bounding_rect"
        => /\ call.result.w = AsF32(self.sprite.text.width)
           /\ call.result.h = AsF32(self.sprite.text.height)
           /\ call.result.x = FSub(self.pos.x, FHalf(AsF32(self.sprite.text.width)))
           /\ call.result.y = FSub(self.pos.y, FHalf(AsF32(self.sprite.text.height)))

\* C7: is_alive is true after Shot::new and Enemy::new, and no call of the
\* module changes it, whether a draw fails or not: it keeps the value last
\* written from outside.
C7_AliveOnlyWritten ==
    /\ [](call.op \in {"Shot::new", "Enemy::new"} => self.is_alive)
    /\ [][(\/ Calls("Shot::update") \/ Calls("Shot::draw")
           \/ Calls("Enemy::update") \/ Calls("Enemy::draw")
           \/ Calls("Enemy::label") \/ Calls("Enemy::bounding_rect"))
            => self'.is_alive = self.is_alive]_vars

\* a shot written dead, moved above the top of the screen, still dead
C7_Witness ==
    /\ call.op = "Shot::update"
    /\ ext
    /\ ~self.is_alive
    /\ self.pos.y < 0

\* C8: TextSprite::new returns Err and no sprite when the font does not
\* load, without trying to lay the text out; Err and no sprite when the font
\* loads and the layout fails; a sprite only when both succeed.
C8_TextSpriteNew ==
    call.op = "TextSprite::new"
        => /\ call.ctx[1].fn = "Font::new"
           /\ call.ctx[1].result = "Err"
                => (Len(call.ctx) = 1 /\ call.result = "Err" /\ self = None)
           /\ call.ctx[1].result = "Ok"
                => /\ Len(call.ctx) = 2
                   /\ call.ctx[2].fn = "Text::new"
                   /\ call.ctx[2].result = "Err" => (call.result = "Err" /\ self = None)
                   /\ call.ctx[2].result = "Ok"
                        => (call.result = "Ok" /\ self.type = "TextSprite")

\* the font failed to load
C8_Witness ==
    /\ call.op = "TextSprite::new"
    /\ call.ctx[1].result = "Err"
    /\ call.result = "Err"

\* C9: Enemy::draw draws its sprite once, centred on the enemy's position,
\* returns what that draw returned, and leaves position, velocity, label and
\* is_alive as they were, whether the draw failed or not.
C9_EnemyDraw ==
    [][Calls("Enemy::draw")
        => /\ Len(call'.ctx) = 1
           /\ call'.ctx[1].fn = "draw_ex"
           /\ call'.ctx[1].drawable = self.sprite.text
           /\ call'.ctx[1].param.dest = self.pos
           /\ call'.result = call'.ctx[1].result
           /\ self'.pos = self.pos
           /\ self'.velocity = self.velocity
           /\ self'.label = self.label
           /\ self'.is_alive = self.is_alive]_vars

\* a draw of a moved enemy failed
C9_Witness ==
    /\ call.op = "Enemy::draw"
    /\ call.result = "Err"
    /\ self.pos.y # F(700) /\ self.pos.y # FracPos

ZeroMove(c) ==
    /\ c.op = "Player::update"
    /\ c.args.amount = 0 \/ c.args.seconds = 0
    /\ c.args.max_right >= 0

\* C10: Player::new keeps the position it is given; an update that moves by
\* nothing (amount 0 or seconds 0, max_right >= 0) leaves x alone exactly
\* when x is in [0, max_right] and otherwise puts it on the nearer bound;
\* the same update made again changes nothing.
C10_ZeroMoveClamps ==
    /\ [](call.op = "Player::new" => self.pos = call.args.pos)
    /\ [][(Calls("Player::update") /\ ZeroMove(call'))
            => /\ (self'.pos.x = self.pos.x)
                    <=> (0 <= self.pos.x /\ self.pos.x <= call'.args.max_right)
               /\ self.pos.x < 0 => self'.pos.x = 0
               /\ self.pos.x > call'.args.max_right => self'.pos.x = call'.args.max_right
               /\ self'.pos.y = self.pos.y]_vars
    /\ [][(ZeroMove(call) /\ Calls("Player::update") /\ call'.args = call.args)
            => self' = self]_vars

\* a player built right of the bound is put on it by an update that does not move
C10_Witness ==
    /\ call.op = "Player::update"
    /\ call.args.amount = 0
    /\ call.args.max_right = F(300)
    /\ call.recv = PlayerNew(Point2(F(1200), F(700)))
    /\ self.pos.x = F(300)

====
